---- MODULE Spec2Model ----
(***************************************************************************)
(* Batched, resumable catalogue scrapers:                                  *)
(*   BatchedMACCosmeticsScraper  (src/Mac/Scripts/mac_final_scraper.py)    *)
(*   BatchedMoidaScraper         (src/Moida/Scripts/moida_final_scraper.py)*)
(* The persisted state is the progress file (the ledger of scraped URLs)   *)
(* and the output file; one run is __init__ (load_progress), the planning  *)
(* part of scrape_batched, one step per planned product, save_progress and *)
(* save_to_json.  A run can be killed between any two steps.               *)
(***************************************************************************)
EXTENDS Integers, Sequences, FiniteSets, TLC

(* ------------------------------------------------------------------ *)
(* Program constants                                                  *)
(* ------------------------------------------------------------------ *)
max_retries == 3
batch_size == 10
max_total_products == 60

(* ------------------------------------------------------------------ *)
(* Bounds of the model                                                *)
(* ------------------------------------------------------------------ *)
\* anchors (product links / containers) on the whole site, also the number
\* of distinct products and of category pages
MaxAnchors == 2
\* runs of the scraper in one behaviour
MaxRuns == 2
\* category pages of a large catalogue
MaxPlanCats == 7
\* product anchors on the longest category page of a large catalogue
MaxListing == 12
\* <img> elements on one product page
MaxImgs == 2

VARIABLES
    scraper,            \* "mac" | "moida": which class is instantiated
    site,               \* the web site: navigation and product anchors per page
    progress_file,      \* scraping_progress.json
    output_file,        \* output_*_batched.json
    pc,                 \* position of the running process
    scraped_urls,       \* self.scraped_urls
    all_new_products,   \* the planned work list of scrape_batched
    idx,                \* number of planned products already processed
    scraped_products,   \* the run's result list
    batches,            \* category['products'] of every visited category
    loaded,             \* the ledger as load_progress read it in this run
    fetched,            \* product urls whose detail page was requested in this run
    resumed,            \* this run loaded the ledger the previous run saved
    saved_ok,           \* the last finished run wrote the progress file
    interrupted_done,   \* urls finalised by the last run when it was killed
    result,             \* how the last run ended: what run() returned, or "killed"
    runs,               \* runs started so far
    detail_page,        \* the product page one image extraction works on
    extracted,          \* what that image extraction returned
    document,           \* the listing page one strategy cascade works on
    catalogue,          \* the product list that cascade returned
    request             \* one make_request call: outcomes, attempts, sleeps, return

vars == <<scraper, site, progress_file, output_file, pc, scraped_urls,
          all_new_products, idx, scraped_products, batches, loaded, fetched,
          resumed, saved_ok, interrupted_done, result, runs, detail_page,
          extracted, document, catalogue, request>>

(* ------------------------------------------------------------------ *)
(* URLs                                                               *)
(* ------------------------------------------------------------------ *)
\* An href is the path of a product, written relative ("/products/x") or
\* absolute ("https://host/products/x").
Forms == {"rel", "abs"}
Href(f, p) == [form |-> f, pid |-> p]

\* urllib.parse.urljoin(self.base_url, href): a relative href is resolved
\* against the base, an absolute one is returned as it is.
urljoin(h) == [form |-> "abs", pid |-> h.pid]

Name(p) == "Product"

fallback_image == "https://sdcdn.io/mac/us/mac_sku_default_1x1_0.png"

(* ------------------------------------------------------------------ *)
(* Sequence helpers                                                   *)
(* ------------------------------------------------------------------ *)
Range(s) == {s[i] : i \in 1..Len(s)}

Min(a, b) == IF a <= b THEN a ELSE b

\* s[:n]
Take(s, n) == SubSeq(s, 1, Min(n, Len(s)))

RECURSIVE MapUrl(_)
MapUrl(s) == IF s = <<>> THEN <<>> ELSE <<Head(s).url>> \o MapUrl(Tail(s))

\* the "Remove duplicates" loops: keep the first product of every url
RECURSIVE UniqueFrom(_, _)
UniqueFrom(s, seen) ==
    IF s = <<>> THEN <<>>
    ELSE IF Head(s).url \in seen THEN UniqueFrom(Tail(s), seen)
         ELSE <<Head(s)>> \o UniqueFrom(Tail(s), seen \cup {Head(s).url})

unique_products(products) == UniqueFrom(products, {})

RECURSIVE UniqueInts(_, _)
UniqueInts(s, seen) ==
    IF s = <<>> THEN <<>>
    ELSE IF Head(s) \in seen THEN UniqueInts(Tail(s), seen)
         ELSE <<Head(s)>> \o UniqueInts(Tail(s), seen \cup {Head(s)})

\* the anchors of page c, in document order
PageAnchors(s, c) == SelectSeq(s.anchors, LAMBDA a : a.page = c)

EmptyDict == [k \in {} |-> ""]

\* dict.update(other)
Update(d, e) ==
    [k \in (DOMAIN d) \cup (DOMAIN e) |-> IF k \in DOMAIN e THEN e[k] ELSE d[k]]

(* ------------------------------------------------------------------ *)
(* The site                                                           *)
(* ------------------------------------------------------------------ *)
\* Page 0 is the main skincare page (skincare_url); pages 1..MaxAnchors are
\* category pages.  site.nav is the list of category links the selectors of
\* discover_categories yield (the same link can be yielded twice);
\* site.anchors are the product anchors (MAC) or product containers (Moida)
\* that pass the href and name guards, in the order the page yields them.
\* An anchor carries its href and (Moida) whether the listing shows an image.
Products == 1..MaxAnchors
Pages == 0..MaxAnchors

MacAnchors == [page : Pages, href : {Href("rel", p) : p \in Products}, img : {FALSE}]
MoidaAnchors == [page : {0}, href : {Href(f, p) : f \in Forms, p \in Products},
                 img : BOOLEAN]

SeqsUpTo(S, n) == UNION {[1..k -> S] : k \in 0..n}

\* anchors listed page by page, pages in increasing order
PageSorted(s) == \A i \in 1..(Len(s) - 1) : s[i].page <= s[i + 1].page

\* category links are numbered in the order of their first occurrence
NavCanonical(nav) ==
    \A i \in 1..Len(nav) :
        nav[i] <= 1 + Cardinality({nav[j] : j \in 1..(i - 1)})

MacSites ==
    {s \in [nav : SeqsUpTo(1..MaxAnchors, MaxAnchors),
            anchors : SeqsUpTo(MacAnchors, MaxAnchors)] :
        /\ NavCanonical(s.nav)
        /\ PageSorted(s.anchors)
        /\ \A i \in 1..Len(s.anchors) :
               s.anchors[i].page \in {0} \cup Range(s.nav)}

MoidaSites ==
    [nav : {<<>>}, anchors : SeqsUpTo(MoidaAnchors, MaxAnchors)]

(* ------------------------------------------------------------------ *)
(* Files                                                              *)
(* ------------------------------------------------------------------ *)
NoProgressFile == [exists |-> FALSE, scraped_urls |-> {}]
NoOutputFile == [exists |-> FALSE, products |-> <<>>]

\* load_progress: the file's urls; nothing when the file is absent; the
\* except branch resets to the empty set
load_progress(file, read_ok) ==
    IF file.exists /\ read_ok THEN file.scraped_urls ELSE {}

\* a save_progress that never writes
save_progress_skipped(file, urls, write_ok) == file

\* save_progress: writes list(self.scraped_urls); the except branch logs
save_progress(file, urls, write_ok) ==
    IF write_ok THEN [exists |-> TRUE, scraped_urls |-> urls] ELSE file

(* ------------------------------------------------------------------ *)
(* Discovery and planning (MAC)                                       *)
(* ------------------------------------------------------------------ *)
\* discover_categories: no response -> []; else the category links found,
\* duplicates (same url) removed
discover_categories(resp, nav) ==
    IF ~resp THEN <<>> ELSE UniqueInts(nav, {})

\* scrape_batched, step 1: the fallback category is the skincare page
categories_or_fallback(cats) == IF cats = <<>> THEN <<0>> ELSE cats

\* discover_products_in_category: no response -> []; else one product per
\* anchor, url = urljoin(base_url, href), already scraped urls skipped,
\* duplicates removed
mac_product(a) ==
    [name |-> Name(a.href.pid), url |-> urljoin(a.href), category |-> a.page]

\* the same without the "Skip if already scraped" test
discover_products_in_category_noskip(resp, anchors, seen) ==
    IF ~resp THEN <<>>
    ELSE unique_products([i \in 1..Len(anchors) |-> mac_product(anchors[i])])

discover_products_in_category(resp, anchors, seen) ==
    IF ~resp THEN <<>>
    ELSE LET products == [i \in 1..Len(anchors) |-> mac_product(anchors[i])]
             fresh == SelectSeq(products, LAMBDA q : q.url \notin seen)
         IN  unique_products(fresh)

\* one product more than the batch size
batch_of_plus(products_in_category) == Take(products_in_category, batch_size + 1)

\* products_in_category[:self.batch_size]
batch_of(products_in_category) == Take(products_in_category, batch_size)

\* the guard with > for >=
cap_reached_strict(total_scraped) == total_scraped > max_total_products

\* the guard at the top of the category loop
cap_reached(total_scraped) == total_scraped >= max_total_products

\* scrape_batched, step 2.  found[k] is what discover_products_in_category
\* returns for the k-th category; acc is (all_new_products, total_scraped,
\* the batch stored in each visited category).
RECURSIVE plan_loop(_, _, _)
plan_loop(found, k, acc) ==
    IF k > Len(found) \/ cap_reached(acc.total_scraped) THEN acc
    ELSE LET batch_products == batch_of(found[k])
         IN  plan_loop(found, k + 1,
                 [all_new_products |-> acc.all_new_products \o batch_products,
                  total_scraped |-> acc.total_scraped + Len(batch_products),
                  batches |-> Append(acc.batches, batch_products)])

plan_batch(found) ==
    plan_loop(found, 1,
              [all_new_products |-> <<>>, total_scraped |-> 0, batches |-> <<>>])

\* scrape_batched, steps 1 and 2, on site s with ledger seen; nav_resp and
\* page_resp[c] say whether make_request returned a response for the
\* skincare page and for page c
scrape_batched_plan(s, seen, nav_resp, page_resp) ==
    LET categories ==
            categories_or_fallback(discover_categories(nav_resp, s.nav))
        found == [k \in 1..Len(categories) |->
                    discover_products_in_category(
                        page_resp[categories[k]],
                        PageAnchors(s, categories[k]),
                        seen)]
    IN  plan_batch(found)

(* ------------------------------------------------------------------ *)
(* Discovery and planning (Moida)                                     *)
(* ------------------------------------------------------------------ *)
ListingImage == "https://cdn.shopify.com/listing.jpg"

\* discover_products_from_main_page: the ledger test is on the raw href, and
\* so is the duplicate removal
moida_product(a) ==
    [name |-> Name(a.href.pid), url |-> a.href, category |-> 0,
     image_url |-> IF a.img THEN ListingImage ELSE "", price |-> ""]

discover_products_from_main_page(resp, containers, seen) ==
    IF ~resp THEN <<>>
    ELSE LET fresh == SelectSeq(containers, LAMBDA a : a.href \notin seen)
             products == [i \in 1..Len(fresh) |-> moida_product(fresh[i])]
         IN  unique_products(products)

\* all_products[:min(self.batch_size, self.max_total_products)]
moida_batch(all_products) ==
    Take(all_products, Min(batch_size, max_total_products))

(* ------------------------------------------------------------------ *)
(* Image resolution                                                   *)
(* ------------------------------------------------------------------ *)
\* An <img> of the detail page is the url of its src / data-src / data-lazy
\* attribute: "" (none), "short" (at most 10 characters), "foreign" (an
\* absolute url without the brand token), a relative path, or an absolute
\* url of the brand's own host.  imgs lists the elements in the order the
\* selector loop visits them.
BrandImages == {"https://brand.example/img1.jpg", "https://brand.example/img2.jpg"}
RelativeImage == "/media/product_1.jpg"
ImgKinds == {"", "short", "foreign", RelativeImage} \cup BrandImages

\* urljoin(self.base_url, img_url) unless img_url starts with http
img_absolute(img_url) ==
    IF img_url = RelativeImage
    THEN "https://brand.example/media/product_1.jpg" ELSE img_url

\* non-empty, longer than 10 characters, brand token in the absolute url
img_accepted(img_url) ==
    /\ img_url # ""
    /\ img_url # "short"
    /\ img_absolute(img_url) # "foreign"

RECURSIVE first_accepted(_)
first_accepted(imgs) ==
    IF imgs = <<>> THEN ""
    ELSE IF img_accepted(Head(imgs)) THEN img_absolute(Head(imgs))
         ELSE first_accepted(Tail(imgs))

\* the three urls built from the product name, in template order
potential_image_urls ==
    <<"https://sdcdn.io/mac/us/mac_sku_name_1.png",
      "https://sdcdn.io/mac/us/mac_sku_name_2.png",
      "https://sdcdn.io/mac/us/mac_sku_name_3.png">>

\* a HEAD probe answers with a status or raises
ProbeOutcomes == {"200", "404", "exception"}

probe_ok(outcome) == outcome = "200"

\* the probe loop without the generic image behind it
RECURSIVE first_probed_or_nothing(_, _)
first_probed_or_nothing(probes, k) ==
    IF k > Len(potential_image_urls) THEN ""
    ELSE IF probe_ok(probes[k]) THEN potential_image_urls[k]
         ELSE first_probed_or_nothing(probes, k + 1)

\* the probe loop, then the generic image
RECURSIVE first_probed(_, _)
first_probed(probes, k) ==
    IF k > Len(potential_image_urls) THEN fallback_image
    ELSE IF probe_ok(probes[k]) THEN potential_image_urls[k]
         ELSE first_probed(probes, k + 1)

\* BatchedMACCosmeticsScraper.extract_image_from_product_page
extract_image_from_product_page(resp, imgs, probes) ==
    IF ~resp THEN ""
    ELSE IF first_accepted(imgs) # "" THEN first_accepted(imgs)
         ELSE first_probed(probes, 1)

\* BatchedMoidaScraper.extract_image_from_product_page: no constructed url,
\* no fallback
moida_extract_image_from_product_page(resp, imgs) ==
    IF ~resp THEN "" ELSE first_accepted(imgs)

\* scrape_individual_product_page: {} without a response, else the fields
\* the selectors found on the page
scrape_individual_product_page(resp, info) ==
    IF ~resp THEN EmptyDict ELSE info

(* ------------------------------------------------------------------ *)
(* Output                                                             *)
(* ------------------------------------------------------------------ *)
\* the same without the image filter
products_unfiltered(products) == products

\* [p for p in products if p.get('image_url')]
products_with_images(products) ==
    SelectSeq(products, LAMBDA q : q.image_url # "")

\* the scraping_stats save_to_json of the Moida scraper writes for the list
\* it is given
moida_scraping_stats(products) ==
    [total_scraped_this_run |-> Len(products),
     products_with_images_this_run |-> Len(products_with_images(products))]

\* save_to_json: existing products (none when the file is absent or cannot
\* be read) followed by this run's products with images; returns False and
\* leaves the file when the write fails
save_to_json(file, products, read_ok, write_ok) ==
    LET existing_products ==
            IF file.exists /\ read_ok THEN file.products ELSE <<>>
        all_products == existing_products \o products_with_images(products)
    IN  IF write_ok THEN [exists |-> TRUE, products |-> all_products] ELSE file

(* ------------------------------------------------------------------ *)
(* What one detail page can answer                                    *)
(* ------------------------------------------------------------------ *)
DetailImgs == {<<>>, <<"foreign", "https://brand.example/img1.jpg">>}
DetailProbes == {<<"404", "exception", "404">>}
DetailInfos == {EmptyDict, [price |-> "$10"]}
NoDetailPage == [resp |-> FALSE, imgs |-> <<>>, probes |-> <<>>]
NoDocument == [robots |-> TRUE, resp |-> FALSE, containers |-> <<>>,
               links |-> <<>>, keywords |-> <<>>, matches |-> <<>>,
               cdn |-> {}]
NoRequest == [outcomes |-> <<>>, attempt |-> 0, slept |-> <<>>,
              returned |-> "pending"]

(* ------------------------------------------------------------------ *)
(* The state machine                                                  *)
(* ------------------------------------------------------------------ *)
Init ==
    /\ scraper \in {"mac", "moida"}
    /\ site \in (IF scraper = "mac" THEN MacSites ELSE MoidaSites)
    /\ progress_file = NoProgressFile
    /\ output_file = NoOutputFile
    /\ pc = "idle"
    /\ scraped_urls = {}
    /\ all_new_products = <<>>
    /\ idx = 0
    /\ scraped_products = <<>>
    /\ batches = <<>>
    /\ loaded = {}
    /\ fetched = {}
    /\ resumed = FALSE
    /\ saved_ok = FALSE
    /\ interrupted_done = {}
    /\ result = "none"
    /\ runs = 0
    /\ detail_page = NoDetailPage
    /\ extracted = "none"
    /\ document = NoDocument
    /\ catalogue = <<>>
    /\ request = NoRequest

\* the process is gone: its memory with it
Forget ==
    /\ pc' = "idle"
    /\ scraped_urls' = {}
    /\ all_new_products' = <<>>
    /\ idx' = 0
    /\ scraped_products' = <<>>
    /\ batches' = <<>>
    /\ loaded' = {}
    /\ fetched' = {}

\* __init__: load_progress
Construct ==
    /\ pc = "idle"
    /\ runs < MaxRuns
    /\ \E read_ok \in BOOLEAN :
        /\ scraped_urls' = load_progress(progress_file, read_ok)
        /\ loaded' = load_progress(progress_file, read_ok)
        /\ resumed' = (saved_ok /\ progress_file.exists /\ read_ok)
    /\ runs' = runs + 1
    /\ pc' = "constructed"
    /\ all_new_products' = <<>>
    /\ idx' = 0
    /\ scraped_products' = <<>>
    /\ batches' = <<>>
    /\ fetched' = {}
    /\ result' = "none"
    /\ UNCHANGED <<document, catalogue, request, detail_page, extracted,
                   scraper, site, progress_file, output_file, saved_ok,
                   interrupted_done>>

\* scrape_batched of the MAC scraper, steps 1 and 2
MacPlan ==
    /\ pc = "constructed"
    /\ scraper = "mac"
    /\ \E nav_resp \in BOOLEAN, page_resp \in [Pages -> BOOLEAN] :
        LET plan == scrape_batched_plan(site, scraped_urls, nav_resp, page_resp)
        IN  /\ all_new_products' = plan.all_new_products
            /\ batches' = plan.batches
            /\ pc' = IF plan.all_new_products = <<>>
                     THEN "save_progress" ELSE "enrich"
    /\ idx' = 0
    /\ UNCHANGED <<document, catalogue, request, detail_page, extracted,
                   scraper, site, progress_file, output_file, scraped_urls,
                   scraped_products, loaded, fetched, resumed, saved_ok,
                   interrupted_done, result, runs>>

\* the same step when a request without a response ends the run: the
\* exception reaches run(), which returns []
MacEnrichAborting ==
    /\ pc = "enrich"
    /\ scraper = "mac"
    /\ idx < Len(all_new_products)
    /\ \E img_resp \in BOOLEAN, imgs \in DetailImgs, probes \in DetailProbes,
          det_resp \in BOOLEAN, info \in DetailInfos :
        LET product == all_new_products[idx + 1]
            image_url == extract_image_from_product_page(img_resp, imgs, probes)
            base == [name |-> product.name, product_url |-> product.url,
                     category |-> product.category, image_url |-> image_url,
                     main_image |-> image_url, price |-> ""]
            product_info ==
                Update(base, scrape_individual_product_page(det_resp, info))
        IN  IF img_resp /\ det_resp
            THEN /\ scraped_urls' = scraped_urls \cup {product.url}
                 /\ scraped_products' = Append(scraped_products, product_info)
                 /\ fetched' = fetched \cup {product.url}
                 /\ idx' = idx + 1
                 /\ pc' = IF idx + 1 = Len(all_new_products)
                          THEN "save_progress" ELSE "enrich"
                 /\ UNCHANGED <<all_new_products, batches, loaded, saved_ok,
                                interrupted_done, result>>
            ELSE /\ Forget
                 /\ saved_ok' = FALSE
                 /\ interrupted_done' = {}
                 /\ result' = "empty"
    /\ UNCHANGED <<document, catalogue, request, detail_page, extracted,
                   scraper, site, progress_file, output_file, resumed, runs>>

\* the same step taking the planned products from the end of the list
MacEnrichReversed ==
    /\ pc = "enrich"
    /\ scraper = "mac"
    /\ idx < Len(all_new_products)
    /\ \E img_resp \in BOOLEAN, imgs \in DetailImgs, probes \in DetailProbes,
          det_resp \in BOOLEAN, info \in DetailInfos :
        LET product == all_new_products[Len(all_new_products) - idx]
            image_url == extract_image_from_product_page(img_resp, imgs, probes)
            base == [name |-> product.name, product_url |-> product.url,
                     category |-> product.category, image_url |-> image_url,
                     main_image |-> image_url, price |-> ""]
            product_info ==
                Update(base, scrape_individual_product_page(det_resp, info))
        IN  /\ scraped_urls' = scraped_urls \cup {product.url}
            /\ scraped_products' = Append(scraped_products, product_info)
            /\ fetched' = fetched \cup {product.url}
    /\ idx' = idx + 1
    /\ pc' = IF idx + 1 = Len(all_new_products) THEN "save_progress" ELSE "enrich"
    /\ UNCHANGED <<document, catalogue, request, detail_page, extracted,
                   scraper, site, progress_file, output_file,
                   all_new_products, batches, loaded, resumed, saved_ok,
                   interrupted_done, result, runs>>

\* scrape_batched of the MAC scraper, step 3, one product
MacEnrich ==
    /\ pc = "enrich"
    /\ scraper = "mac"
    /\ idx < Len(all_new_products)
    /\ \E img_resp \in BOOLEAN, imgs \in DetailImgs, probes \in DetailProbes,
          det_resp \in BOOLEAN, info \in DetailInfos :
        LET product == all_new_products[idx + 1]
            image_url == extract_image_from_product_page(img_resp, imgs, probes)
            base == [name |-> product.name, product_url |-> product.url,
                     category |-> product.category, image_url |-> image_url,
                     main_image |-> image_url, price |-> ""]
            product_info ==
                Update(base, scrape_individual_product_page(det_resp, info))
        IN  /\ scraped_urls' = scraped_urls \cup {product.url}
            /\ scraped_products' = Append(scraped_products, product_info)
            /\ fetched' = fetched \cup {product.url}
    /\ idx' = idx + 1
    /\ pc' = IF idx + 1 = Len(all_new_products) THEN "save_progress" ELSE "enrich"
    /\ UNCHANGED <<document, catalogue, request, detail_page, extracted,
                   scraper, site, progress_file, output_file,
                   all_new_products, batches, loaded, resumed, saved_ok,
                   interrupted_done, result, runs>>

\* scrape_batched of the Moida scraper, steps 1 and 2; with no product it
\* returns at once and run() returns []
MoidaPlan ==
    /\ pc = "constructed"
    /\ scraper = "moida"
    /\ \E resp \in BOOLEAN :
        LET all_products ==
                discover_products_from_main_page(resp, PageAnchors(site, 0),
                                                 scraped_urls)
        IN  IF all_products = <<>>
            THEN /\ Forget
                 /\ saved_ok' = FALSE
                 /\ interrupted_done' = {}
                 /\ result' = "empty"
            ELSE /\ all_new_products' = moida_batch(all_products)
                 /\ pc' = "enrich"
                 /\ idx' = 0
                 /\ UNCHANGED <<scraped_urls, scraped_products, batches, loaded,
                                fetched, saved_ok, interrupted_done, result>>
    /\ UNCHANGED <<document, catalogue, request, detail_page, extracted,
                   scraper, site, progress_file, output_file, resumed, runs>>

\* scrape_batched of the Moida scraper, step 3, one product
MoidaEnrich ==
    /\ pc = "enrich"
    /\ scraper = "moida"
    /\ idx < Len(all_new_products)
    /\ \E img_resp \in BOOLEAN, imgs \in DetailImgs,
          det_resp \in BOOLEAN, info \in DetailInfos :
        LET product == all_new_products[idx + 1]
            image_url ==
                IF product.image_url # "" THEN product.image_url
                ELSE moida_extract_image_from_product_page(img_resp, imgs)
            base == [name |-> product.name, product_url |-> urljoin(product.url),
                     category |-> product.category, image_url |-> image_url,
                     main_image |-> IF product.image_url # "" THEN "" ELSE image_url,
                     price |-> product.price]
            product_info ==
                Update(base, scrape_individual_product_page(det_resp, info))
        IN  /\ scraped_urls' = scraped_urls \cup {product.url}
            /\ scraped_products' =
                   IF product_info.image_url # ""
                   THEN Append(scraped_products, product_info)
                   ELSE scraped_products
            /\ fetched' = fetched \cup {product.url}
    /\ idx' = idx + 1
    /\ pc' = IF idx + 1 = Len(all_new_products) THEN "save_progress" ELSE "enrich"
    /\ UNCHANGED <<document, catalogue, request, detail_page, extracted,
                   scraper, site, progress_file, output_file,
                   all_new_products, batches, loaded, resumed, saved_ok,
                   interrupted_done, result, runs>>

\* the end of scrape_batched: save_progress, then return scraped_products
SaveProgress ==
    /\ pc = "save_progress"
    /\ \E write_ok \in BOOLEAN :
        /\ progress_file' = save_progress(progress_file, scraped_urls, write_ok)
        /\ saved_ok' = write_ok
    /\ pc' = "persist"
    /\ UNCHANGED <<document, catalogue, request, detail_page, extracted,
                   scraper, site, output_file, scraped_urls, all_new_products,
                   idx, scraped_products, batches, loaded, fetched, resumed,
                   interrupted_done, result, runs>>

\* the rest of run(): save_to_json when products is not empty
Persist ==
    /\ pc = "persist"
    /\ IF scraped_products # <<>>
       THEN \E read_ok \in BOOLEAN, write_ok \in BOOLEAN :
                /\ output_file' = save_to_json(output_file, scraped_products,
                                               read_ok, write_ok)
                /\ result' = IF write_ok THEN "products" ELSE "empty"
       ELSE /\ output_file' = output_file
            /\ result' = "empty"
    /\ Forget
    /\ interrupted_done' = {}
    /\ UNCHANGED <<document, catalogue, request, detail_page, extracted,
                   scraper, site, progress_file, resumed, saved_ok, runs>>

\* the process is killed (KeyboardInterrupt is no Exception: run() does not
\* catch it)
Interrupt ==
    /\ pc # "idle"
    /\ interrupted_done' = {all_new_products[i].url : i \in 1..idx}
    /\ saved_ok' = IF pc = "persist" THEN saved_ok ELSE FALSE
    /\ result' = "killed"
    /\ Forget
    /\ UNCHANGED <<document, catalogue, request, detail_page, extracted,
                   scraper, site, progress_file, output_file, resumed, runs>>

Next ==
    \/ Construct
    \/ MacPlan
    \/ MacEnrich
    \/ MoidaPlan
    \/ MoidaEnrich
    \/ SaveProgress
    \/ Persist
    \/ Interrupt

Spec == Init /\ [][Next]_vars

(* ------------------------------------------------------------------ *)
(* Runs that are not killed                                           *)
(* ------------------------------------------------------------------ *)
\* Every request has a timeout and is retried a bounded number of times, and
\* every file operation returns or raises, so a step of a run that is not
\* killed comes to its end: the steps of a started run are weakly fair.
\* Starting a run (Construct) is up to the caller.
RunStep ==
    \/ MacPlan
    \/ MacEnrich
    \/ MoidaPlan
    \/ MoidaEnrich
    \/ SaveProgress
    \/ Persist

NextUninterrupted ==
    \/ Construct
    \/ RunStep

SpecUninterrupted ==
    Init /\ [][NextUninterrupted]_vars /\ WF_vars(RunStep)

(* ------------------------------------------------------------------ *)
(* The planner on large catalogues                                    *)
(* ------------------------------------------------------------------ *)
\* A large catalogue has n category pages; page c lists sizes[c] anchors.
\* shape "plain": all products distinct, empty ledger; "seen": every third
\* product of a page is in the ledger already; "dup": every product is
\* listed twice in a row.
PlanSizes == {5, batch_size, MaxListing}
PlanShapes == {"plain", "seen", "dup"}

BigAnchor(c, i, shape) ==
    [page |-> c,
     href |-> Href("rel", 100 * c + (IF shape = "dup" THEN (i + 1) \div 2 ELSE i)),
     img |-> FALSE]

RECURSIVE BigAnchors(_, _, _)
BigAnchors(sizes, c, shape) ==
    IF c > Len(sizes) THEN <<>>
    ELSE [i \in 1..sizes[c] |-> BigAnchor(c, i, shape)]
             \o BigAnchors(sizes, c + 1, shape)

BigSite(sizes, shape) ==
    [nav |-> [c \in 1..Len(sizes) |-> c], anchors |-> BigAnchors(sizes, 1, shape)]

BigLedger(sizes, shape) ==
    IF shape = "seen"
    THEN [exists |-> TRUE,
          scraped_urls |-> {Href("abs", 100 * c + i) :
                               c \in 1..Len(sizes), i \in {3, 6, 9, 12}}]
    ELSE NoProgressFile

\* the collection page of a large Moida catalogue
MoidaBigSite(n) ==
    [nav |-> <<>>,
     anchors |-> [i \in 1..n |-> [page |-> 0, href |-> Href("rel", i), img |-> TRUE]]]

InitPlan ==
    /\ \/ \E n \in 1..MaxPlanCats, shape \in PlanShapes :
            \E sizes \in [1..n -> PlanSizes] :
                /\ scraper = "mac"
                /\ site = BigSite(sizes, shape)
                /\ progress_file = BigLedger(sizes, shape)
       \/ \E n \in PlanSizes \cup {max_total_products + 1} :
            /\ scraper = "moida"
            /\ site = MoidaBigSite(n)
            /\ progress_file = NoProgressFile
    /\ output_file = NoOutputFile
    /\ pc = "idle"
    /\ scraped_urls = {}
    /\ all_new_products = <<>>
    /\ idx = 0
    /\ scraped_products = <<>>
    /\ batches = <<>>
    /\ loaded = {}
    /\ fetched = {}
    /\ resumed = FALSE
    /\ saved_ok = FALSE
    /\ interrupted_done = {}
    /\ result = "none"
    /\ runs = 0
    /\ detail_page = NoDetailPage
    /\ extracted = "none"
    /\ document = NoDocument
    /\ catalogue = <<>>
    /\ request = NoRequest

\* scrape_batched of the MAC scraper, steps 1 and 2, every request answered
PlanCatalogue ==
    /\ pc = "constructed"
    /\ scraper = "mac"
    /\ LET plan == scrape_batched_plan(site, scraped_urls, TRUE,
                                       [c \in 0..Len(site.nav) |-> TRUE])
       IN  /\ all_new_products' = plan.all_new_products
           /\ batches' = plan.batches
    /\ pc' = "planned"
    /\ UNCHANGED <<document, catalogue, request, detail_page, extracted,
                   scraper, site, progress_file, output_file, scraped_urls,
                   idx, scraped_products, loaded, fetched, resumed, saved_ok,
                   interrupted_done, result, runs>>

\* scrape_batched of the Moida scraper, steps 1 and 2, the request answered
PlanCollection ==
    /\ pc = "constructed"
    /\ scraper = "moida"
    /\ all_new_products' =
           moida_batch(discover_products_from_main_page(
                           TRUE, PageAnchors(site, 0), scraped_urls))
    /\ pc' = "planned"
    /\ UNCHANGED <<document, catalogue, request, detail_page, extracted,
                   scraper, site, progress_file, output_file, scraped_urls,
                   idx, scraped_products, batches, loaded, fetched, resumed,
                   saved_ok, interrupted_done, result, runs>>

NextPlan ==
    \/ Construct
    \/ PlanCatalogue
    \/ PlanCollection

SpecPlan == InitPlan /\ [][NextPlan]_vars

(* ------------------------------------------------------------------ *)
(* Consecutive runs on large catalogues, nothing failing              *)
(* ------------------------------------------------------------------ *)
\* Every request is answered, every file operation succeeds (the ledger
\* read in __init__ apart).  A product page carries no image of its own: the
\* MAC scraper ends at the generic image, the Moida scraper has the listing
\* image or none.
ResumeSizes == {5, batch_size + 5, 2 * batch_size}
ResumeListings == {5, batch_size + 1, 2 * batch_size + 5}

\* the collection page of a Moida catalogue whose first k containers show
\* no image
MoidaMixedSite(n, k) ==
    [nav |-> <<>>,
     anchors |-> [i \in 1..n |->
                     [page |-> 0, href |-> Href("rel", i), img |-> i > k]]]

InitResume ==
    /\ \/ \E n \in 1..MaxPlanCats : \E sizes \in [1..n -> ResumeSizes] :
            /\ scraper = "mac"
            /\ site = BigSite(sizes, "plain")
       \/ \E n \in ResumeListings, k \in {0, batch_size} :
            /\ scraper = "moida"
            /\ site = MoidaMixedSite(n, k)
    /\ progress_file = NoProgressFile
    /\ output_file = NoOutputFile
    /\ pc = "idle"
    /\ scraped_urls = {}
    /\ all_new_products = <<>>
    /\ idx = 0
    /\ scraped_products = <<>>
    /\ batches = <<>>
    /\ loaded = {}
    /\ fetched = {}
    /\ resumed = FALSE
    /\ saved_ok = FALSE
    /\ interrupted_done = {}
    /\ result = "none"
    /\ runs = 0
    /\ detail_page = NoDetailPage
    /\ extracted = "none"
    /\ document = NoDocument
    /\ catalogue = <<>>
    /\ request = NoRequest

\* the record scrape_batched (MAC) builds for a planned product
mac_product_info(product, image_url, additional_info) ==
    Update([name |-> product.name, product_url |-> product.url,
            category |-> product.category, image_url |-> image_url,
            main_image |-> image_url, price |-> ""],
           additional_info)

\* the record scrape_batched (Moida) builds for a planned product;
\* page_image is what the product page yields when the listing has no image
moida_product_info(product, page_image, additional_info) ==
    Update([name |-> product.name, product_url |-> urljoin(product.url),
            category |-> product.category,
            image_url |-> IF product.image_url # ""
                          THEN product.image_url ELSE page_image,
            main_image |-> IF product.image_url # "" THEN "" ELSE page_image,
            price |-> product.price],
           additional_info)

\* the rest of a MAC run after planning: step 3 for every planned product,
\* save_progress, save_to_json, return; scraped_products stays as the value
\* run() returned
FinishCatalogueRun ==
    /\ pc = "planned"
    /\ scraper = "mac"
    /\ LET image_url == extract_image_from_product_page(
                            TRUE, <<>>, <<"404", "404", "404">>)
           products == [i \in 1..Len(all_new_products) |->
                           mac_product_info(all_new_products[i], image_url,
                               scrape_individual_product_page(TRUE, EmptyDict))]
           urls == scraped_urls \cup Range(MapUrl(all_new_products))
       IN  /\ scraped_products' = products
           /\ scraped_urls' = urls
           /\ fetched' = Range(MapUrl(all_new_products))
           /\ progress_file' = save_progress(progress_file, urls, TRUE)
           /\ output_file' = IF products # <<>>
                             THEN save_to_json(output_file, products, TRUE, TRUE)
                             ELSE output_file
           /\ result' = IF products # <<>> THEN "products" ELSE "empty"
    /\ saved_ok' = TRUE
    /\ idx' = Len(all_new_products)
    /\ pc' = "idle"
    /\ UNCHANGED <<document, catalogue, request, detail_page, extracted,
                   scraper, site, all_new_products, batches, loaded, resumed,
                   interrupted_done, runs>>

\* the rest of a Moida run after planning; with nothing discovered
\* scrape_batched returns before save_progress
FinishCollectionRun ==
    /\ pc = "planned"
    /\ scraper = "moida"
    /\ LET page_image == moida_extract_image_from_product_page(TRUE, <<>>)
           infos == [i \in 1..Len(all_new_products) |->
                        moida_product_info(all_new_products[i], page_image,
                            scrape_individual_product_page(TRUE, EmptyDict))]
           products == SelectSeq(infos, LAMBDA q : q.image_url # "")
           urls == scraped_urls \cup Range(MapUrl(all_new_products))
       IN  /\ scraped_products' = products
           /\ scraped_urls' = urls
           /\ fetched' = Range(MapUrl(all_new_products))
           /\ progress_file' = IF all_new_products # <<>>
                               THEN save_progress(progress_file, urls, TRUE)
                               ELSE progress_file
           /\ saved_ok' = (all_new_products # <<>>)
           /\ output_file' = IF products # <<>>
                             THEN save_to_json(output_file, products, TRUE, TRUE)
                             ELSE output_file
           /\ result' = IF products # <<>> THEN "products" ELSE "empty"
    /\ idx' = Len(all_new_products)
    /\ pc' = "idle"
    /\ UNCHANGED <<document, catalogue, request, detail_page, extracted,
                   scraper, site, all_new_products, batches, loaded, resumed,
                   interrupted_done, runs>>

NextResume ==
    \/ Construct
    \/ PlanCatalogue
    \/ PlanCollection
    \/ FinishCatalogueRun
    \/ FinishCollectionRun

SpecResume == InitResume /\ [][NextResume]_vars

(* ------------------------------------------------------------------ *)
(* Invocation after invocation on a large catalogue, nothing failing  *)
(* ------------------------------------------------------------------ *)
MaxDrainRuns == 6

\* catalogues of small and of large categories, collections of every size
DrainSizes == {5, 2 * batch_size}

InitDrain ==
    /\ \/ \E n \in 1..MaxPlanCats : \E sizes \in [1..n -> DrainSizes] :
            /\ scraper = "mac"
            /\ site = BigSite(sizes, "plain")
       \/ \E n \in ResumeListings, k \in {0, batch_size} :
            /\ scraper = "moida"
            /\ site = MoidaMixedSite(n, k)
    /\ progress_file = NoProgressFile
    /\ output_file = NoOutputFile
    /\ pc = "idle"
    /\ scraped_urls = {}
    /\ all_new_products = <<>>
    /\ idx = 0
    /\ scraped_products = <<>>
    /\ batches = <<>>
    /\ loaded = {}
    /\ fetched = {}
    /\ resumed = FALSE
    /\ saved_ok = FALSE
    /\ interrupted_done = {}
    /\ result = "none"
    /\ runs = 0
    /\ detail_page = NoDetailPage
    /\ extracted = "none"
    /\ document = NoDocument
    /\ catalogue = <<>>
    /\ request = NoRequest

\* __init__ of the next invocation: load_progress reads the ledger
Reinvoke ==
    /\ pc = "idle"
    /\ runs < MaxDrainRuns
    /\ scraped_urls' = load_progress(progress_file, TRUE)
    /\ loaded' = load_progress(progress_file, TRUE)
    /\ resumed' = (saved_ok /\ progress_file.exists)
    /\ runs' = runs + 1
    /\ pc' = "constructed"
    /\ all_new_products' = <<>>
    /\ idx' = 0
    /\ scraped_products' = <<>>
    /\ batches' = <<>>
    /\ fetched' = {}
    /\ result' = "none"
    /\ UNCHANGED <<document, catalogue, request, detail_page, extracted,
                   scraper, site, progress_file, output_file, saved_ok,
                   interrupted_done>>

NextDrain ==
    \/ Reinvoke
    \/ PlanCatalogue
    \/ PlanCollection
    \/ FinishCatalogueRun
    \/ FinishCollectionRun

\* NextDrain can take a step exactly when a run is under way or another
\* invocation is allowed, and every step of NextDrain changes pc
DrainEnabled == pc # "idle" \/ runs < MaxDrainRuns

DrainStep ==
    /\ DrainEnabled
    /\ pc' \in {"idle", "constructed", "planned"}
    /\ pc' # pc

\* the invocations are repeated and every started run runs to its end:
\* weak fairness of NextDrain, stated on DrainStep, which is enabled when
\* NextDrain is and occurs when a step of NextDrain does
SpecDrain == InitDrain /\ [][NextDrain]_vars /\ WF_pc(DrainStep)

(* ------------------------------------------------------------------ *)
(* One image extraction on every product page                         *)
(* ------------------------------------------------------------------ *)
DetailPages ==
    [resp : BOOLEAN, imgs : SeqsUpTo(ImgKinds, MaxImgs),
     probes : [1..Len(potential_image_urls) -> ProbeOutcomes]]

InitImage ==
    /\ scraper \in {"mac", "moida"}
    /\ site = [nav |-> <<>>, anchors |-> <<>>]
    /\ progress_file = NoProgressFile
    /\ output_file = NoOutputFile
    /\ pc = "enrich"
    /\ scraped_urls = {}
    /\ all_new_products = <<>>
    /\ idx = 0
    /\ scraped_products = <<>>
    /\ batches = <<>>
    /\ loaded = {}
    /\ fetched = {}
    /\ resumed = FALSE
    /\ saved_ok = FALSE
    /\ interrupted_done = {}
    /\ result = "none"
    /\ runs = 1
    /\ detail_page \in DetailPages
    /\ extracted = "none"
    /\ document = NoDocument
    /\ catalogue = <<>>
    /\ request = NoRequest

\* BatchedMACCosmeticsScraper.extract_image_from_product_page on the page
ExtractImage ==
    /\ pc = "enrich"
    /\ scraper = "mac"
    /\ extracted' = extract_image_from_product_page(
                        detail_page.resp, detail_page.imgs, detail_page.probes)
    /\ pc' = "extracted"
    /\ UNCHANGED <<document, catalogue, request, detail_page, scraper, site,
                   progress_file, output_file, scraped_urls, all_new_products,
                   idx, scraped_products, batches, loaded, fetched, resumed,
                   saved_ok, interrupted_done, result, runs>>

\* BatchedMoidaScraper.extract_image_from_product_page on the page
MoidaExtractImage ==
    /\ pc = "enrich"
    /\ scraper = "moida"
    /\ extracted' = moida_extract_image_from_product_page(
                        detail_page.resp, detail_page.imgs)
    /\ pc' = "extracted"
    /\ UNCHANGED <<document, catalogue, request, detail_page, scraper, site,
                   progress_file, output_file, scraped_urls, all_new_products,
                   idx, scraped_products, batches, loaded, fetched, resumed,
                   saved_ok, interrupted_done, result, runs>>

NextImage ==
    \/ ExtractImage
    \/ MoidaExtractImage

SpecImage == InitImage /\ [][NextImage]_vars

(* ------------------------------------------------------------------ *)
(* The strategy cascades of the one-shot scrapers                     *)
(*   MACAdvancedScraper          (src/Mac/Scripts/mac_advanced_scraper.py) *)
(*   MACCosmeticsScraper (src/Mac/Scripts/                            *)
(*                        mac_cosmetics_comprehensive_scraper.py)     *)
(* ------------------------------------------------------------------ *)
\* A document is what the stages of a cascade yield on the skincare page:
\* containers are the product_info dicts the stage-1 selector loops extract,
\* element by element (the same element can be yielded twice); links are the
\* anchors of the link selectors with their text and href; keywords are the
\* texts the keyword patterns match; matches are the product_info dicts
\* extract_product_info returns for the regex matches.  robots is the answer
\* of check_robots_txt, resp whether the page request got a response, cdn
\* the image urls the image host answers with status 200.
MaxContainers == 2
MaxLinks == 1
MaxKeywords == 1
MaxMatches == 1

base_url == "https://www.maccosmetics.com"

CandNames == {"", "Hydra Serum One", "Hydra Serum Two"}
CandImages == {"", "https://www.maccosmetics.com/img/a.jpg"}
CandPrices == {"", "$20.00"}
CandHrefs == {"", "/product/1", "/product/2"}
\* "A Serum" is a keyword match of at most 10 characters
KeywordTexts == {"Hydra Serum One", "A Serum"}

\* urljoin(self.base_url, href) for the hrefs of the model
urljoin_base(href) ==
    CASE href = "/product/1" -> "https://www.maccosmetics.com/product/1"
      [] href = "/product/2" -> "https://www.maccosmetics.com/product/2"
      [] href = "/product/13824/130276/products/skincare/cleansers/hyper-real-fresh-canvas-cream-to-foam-cleanser"
           -> "https://www.maccosmetics.com/product/13824/130276/products/skincare/cleansers/hyper-real-fresh-canvas-cream-to-foam-cleanser"
      [] href = "/product/13824/130276/products/skincare/cleansers/hyper-real-fresh-canvas-cleansing-oil"
           -> "https://www.maccosmetics.com/product/13824/130276/products/skincare/cleansers/hyper-real-fresh-canvas-cleansing-oil"
      [] href = "/product/13824/130276/products/skincare/serums/hyper-real-serumizer-skin-balancing-hydration-serum"
           -> "https://www.maccosmetics.com/product/13824/130276/products/skincare/serums/hyper-real-serumizer-skin-balancing-hydration-serum"
      [] href = "/product/13824/130276/products/skincare/moisturizers/hyper-real-skincanvas-balm-moisturizing-cream"
           -> "https://www.maccosmetics.com/product/13824/130276/products/skincare/moisturizers/hyper-real-skincanvas-balm-moisturizing-cream"
      [] href = "/product/13824/130276/products/skincare/primers/studio-radiance-moisturizing-illuminating-silky-primer"
           -> "https://www.maccosmetics.com/product/13824/130276/products/skincare/primers/studio-radiance-moisturizing-illuminating-silky-primer"
      [] href = "/product/13824/130276/products/skincare/setting-sprays/prep-prime-fix-matte"
           -> "https://www.maccosmetics.com/product/13824/130276/products/skincare/setting-sprays/prep-prime-fix-matte"
      [] href = "/product/13824/130276/products/skincare/setting-sprays/fix-setting-spray"
           -> "https://www.maccosmetics.com/product/13824/130276/products/skincare/setting-sprays/fix-setting-spray"
      [] href = "/product/13824/130276/products/skincare/eye-care/fast-response-eye-cream"
           -> "https://www.maccosmetics.com/product/13824/130276/products/skincare/eye-care/fast-response-eye-cream"
      [] href = "/product/13824/130276/products/skincare/primers/prep-prime-natural-radiance"
           -> "https://www.maccosmetics.com/product/13824/130276/products/skincare/primers/prep-prime-natural-radiance"
      [] href = "/product/13824/130276/products/skincare/sunscreen/prep-prime-face-protect-lotion-spf-50"
           -> "https://www.maccosmetics.com/product/13824/130276/products/skincare/sunscreen/prep-prime-face-protect-lotion-spf-50"
      [] OTHER -> base_url

ElementInfos == [name : CandNames, price : CandPrices,
                 product_url : {"", urljoin_base("/product/1")},
                 image_url : CandImages]
LinkElements == [text : CandNames, href : CandHrefs]

AdvancedDocuments ==
    {NoDocument} \cup
    [robots : {TRUE}, resp : {TRUE},
     containers : SeqsUpTo(ElementInfos, MaxContainers),
     links : SeqsUpTo(LinkElements, MaxLinks),
     keywords : SeqsUpTo(KeywordTexts, MaxKeywords),
     matches : {<<>>},
     cdn : {{}}]

ComprehensiveDocuments ==
    {NoDocument, [NoDocument EXCEPT !.robots = FALSE, !.resp = TRUE]} \cup
    [robots : {TRUE}, resp : {TRUE},
     containers : SeqsUpTo(ElementInfos, MaxContainers),
     links : {<<>>},
     keywords : {<<>>},
     matches : SeqsUpTo(ElementInfos, MaxMatches),
     cdn : {{}}]

\* a product page of the cascade scrapers: scrape_individual_product_page
\* returns {} without a url or a response, else the keys it found
CascadeInfos == {EmptyDict,
                 [price |-> "$10.00",
                  main_image |-> "https://www.maccosmetics.com/img/main.jpg"]}
individual_product_page(product_url, info) ==
    IF product_url = "" THEN EmptyDict ELSE info

\* Strategy 1 / the selector loop: a container counts with name and image
stage1_candidates(containers) ==
    SelectSeq(containers, LAMBDA q : q.name # "" /\ q.image_url # "")

\* Strategy 2 of extract_products_from_html: every link with an href and a
\* text becomes a product without image
link_product(link) ==
    [name |-> link.text, price |-> "",
     product_url |-> urljoin_base(link.href), image_url |-> ""]

RECURSIVE MapLinks(_)
MapLinks(s) ==
    IF s = <<>> THEN <<>> ELSE <<link_product(Head(s))>> \o MapLinks(Tail(s))

link_candidates(links) ==
    MapLinks(SelectSeq(links, LAMBDA l : l.href # "" /\ l.text # ""))

\* Strategy 3 of extract_products_from_html: every keyword match of more
\* than 10 and fewer than 100 characters becomes a product without url and
\* image
keyword_length_ok(match) == match # "A Serum"

keyword_product(match) ==
    [name |-> match, price |-> "", product_url |-> "", image_url |-> ""]

RECURSIVE MapKeywords(_)
MapKeywords(s) ==
    IF s = <<>> THEN <<>>
    ELSE <<keyword_product(Head(s))>> \o MapKeywords(Tail(s))

keyword_candidates(keywords) ==
    MapKeywords(SelectSeq(keywords, keyword_length_ok))

extract_products_from_html(doc) ==
    stage1_candidates(doc.containers) \o link_candidates(doc.links)
        \o keyword_candidates(doc.keywords)

\* "Remove duplicates based on product name", keeping the last product of
\* every name
RECURSIVE unique_by_name_last(_)
unique_by_name_last(products) ==
    IF products = <<>> THEN <<>>
    ELSE IF \E i \in 2..Len(products) : products[i].name = Head(products).name
         THEN unique_by_name_last(Tail(products))
         ELSE <<Head(products)>> \o unique_by_name_last(Tail(products))

\* "Remove duplicates based on product name": the first product of every
\* name stays
RECURSIVE UniqueNamesFrom(_, _)
UniqueNamesFrom(s, seen_names) ==
    IF s = <<>> THEN <<>>
    ELSE IF Head(s).name \in seen_names
         THEN UniqueNamesFrom(Tail(s), seen_names)
         ELSE <<Head(s)>>
                  \o UniqueNamesFrom(Tail(s), seen_names \cup {Head(s).name})

unique_by_name(products) == UniqueNamesFrom(products, {})

\* MACAdvancedScraper.known_products
known_products == <<
    [name |-> "Hyper Real Fresh Canvas Cream-To-Foam Cleanser",
     price |-> "$36.00",
     url |-> "/product/13824/130276/products/skincare/cleansers/hyper-real-fresh-canvas-cream-to-foam-cleanser"],
    [name |-> "Hyper Real Fresh Canvas Cleansing Oil",
     price |-> "$57.00",
     url |-> "/product/13824/130276/products/skincare/cleansers/hyper-real-fresh-canvas-cleansing-oil"],
    [name |-> "Hyper Real Serumizer(TM) Skin Balancing Hydration Serum",
     price |-> "$65.00",
     url |-> "/product/13824/130276/products/skincare/serums/hyper-real-serumizer-skin-balancing-hydration-serum"],
    [name |-> "Hyper Real SkinCanvas Balm(TM) Moisturizing Cream",
     price |-> "$58.00",
     url |-> "/product/13824/130276/products/skincare/moisturizers/hyper-real-skincanvas-balm-moisturizing-cream"],
    [name |-> "Studio Radiance Moisturizing + Illuminating Silky Primer",
     price |-> "$36.00",
     url |-> "/product/13824/130276/products/skincare/primers/studio-radiance-moisturizing-illuminating-silky-primer"],
    [name |-> "Prep + Prime Fix+ Matte",
     price |-> "$34.00",
     url |-> "/product/13824/130276/products/skincare/setting-sprays/prep-prime-fix-matte"],
    [name |-> "FIX+ Setting Spray",
     price |-> "$34.00",
     url |-> "/product/13824/130276/products/skincare/setting-sprays/fix-setting-spray"],
    [name |-> "Fast Response Eye Cream",
     price |-> "$35.00",
     url |-> "/product/13824/130276/products/skincare/eye-care/fast-response-eye-cream"],
    [name |-> "Prep + Prime Natural Radiance",
     price |-> "$46.00",
     url |-> "/product/13824/130276/products/skincare/primers/prep-prime-natural-radiance"],
    [name |-> "Prep + Prime Face Protect Lotion SPF 50",
     price |-> "$42.00",
     url |-> "/product/13824/130276/products/skincare/sunscreen/prep-prime-face-protect-lotion-spf-50"]
    >>

\* which product pages of the seeds answer, and with what
SeedPages ==
    {[i \in 1..Len(known_products) |-> EmptyDict],
     [i \in 1..Len(known_products) |->
          [main_image |-> "https://www.maccosmetics.com/img/main.jpg"]],
     [i \in 1..Len(known_products) |->
          IF i % 2 = 0 THEN [price |-> "$10.00"] ELSE EmptyDict]}

\* the image url scrape_with_known_products constructs from the name:
\* punctuation removed, blanks to dashes, lower case
constructed_image(name) ==
    CASE name = "Hyper Real Fresh Canvas Cream-To-Foam Cleanser"
           -> "https://sdcdn.io/mac/us/mac_sku_hyper-real-fresh-canvas-creamtofoam-cleanser_1x1_0.png?width=1080&height=1080"
      [] name = "Hyper Real Fresh Canvas Cleansing Oil"
           -> "https://sdcdn.io/mac/us/mac_sku_hyper-real-fresh-canvas-cleansing-oil_1x1_0.png?width=1080&height=1080"
      [] name = "Hyper Real Serumizer(TM) Skin Balancing Hydration Serum"
           -> "https://sdcdn.io/mac/us/mac_sku_hyper-real-serumizer-skin-balancing-hydration-serum_1x1_0.png?width=1080&height=1080"
      [] name = "Hyper Real SkinCanvas Balm(TM) Moisturizing Cream"
           -> "https://sdcdn.io/mac/us/mac_sku_hyper-real-skincanvas-balm-moisturizing-cream_1x1_0.png?width=1080&height=1080"
      [] name = "Studio Radiance Moisturizing + Illuminating Silky Primer"
           -> "https://sdcdn.io/mac/us/mac_sku_studio-radiance-moisturizing--illuminating-silky-primer_1x1_0.png?width=1080&height=1080"
      [] name = "Prep + Prime Fix+ Matte"
           -> "https://sdcdn.io/mac/us/mac_sku_prep--prime-fix-matte_1x1_0.png?width=1080&height=1080"
      [] name = "FIX+ Setting Spray"
           -> "https://sdcdn.io/mac/us/mac_sku_fix-setting-spray_1x1_0.png?width=1080&height=1080"
      [] name = "Fast Response Eye Cream"
           -> "https://sdcdn.io/mac/us/mac_sku_fast-response-eye-cream_1x1_0.png?width=1080&height=1080"
      [] name = "Prep + Prime Natural Radiance"
           -> "https://sdcdn.io/mac/us/mac_sku_prep--prime-natural-radiance_1x1_0.png?width=1080&height=1080"
      [] name = "Prep + Prime Face Protect Lotion SPF 50"
           -> "https://sdcdn.io/mac/us/mac_sku_prep--prime-face-protect-lotion-spf-50_1x1_0.png?width=1080&height=1080"
      [] OTHER -> "https://sdcdn.io/mac/us/mac_sku__1x1_0.png?width=1080&height=1080"

\* the page does not answer; the image host has all the constructed images
\* or none of them
ConstructedImages ==
    {constructed_image(known_products[i].name) : i \in 1..Len(known_products)}

FallbackDocuments ==
    {[NoDocument EXCEPT !.cdn = c] : c \in {{}, ConstructedImages}}

\* one round of the loop of scrape_with_known_products
known_product_info(known_product, additional_info) ==
    LET product_info ==
            Update([name |-> known_product.name,
                    price |-> known_product.price,
                    product_url |-> urljoin_base(known_product.url),
                    image_url |-> "",
                    main_image |-> ""], additional_info)
        potential_image_url == constructed_image(known_product.name)
    IN  IF product_info.image_url = "" /\ product_info.main_image = ""
        THEN [product_info EXCEPT !.image_url = potential_image_url,
                                  !.main_image = potential_image_url]
        ELSE product_info

scrape_with_known_products(pages) ==
    [i \in 1..Len(known_products) |->
         known_product_info(known_products[i],
             individual_product_page(urljoin_base(known_products[i].url),
                                     pages[i]))]

\* scrape_advanced: the products of the page when it answers, the known
\* products when there are none, then the first product of every name
scrape_advanced(doc, pages) ==
    LET products_from_html ==
            IF doc.resp THEN extract_products_from_html(doc) ELSE <<>>
        products == IF products_from_html = <<>>
                    THEN scrape_with_known_products(pages)
                    ELSE products_from_html
    IN  unique_by_name(products)

\* save_to_json of the advanced scraper: the products with an image_url
\* replace the file; a failed write leaves the file as it was
advanced_save_to_json(file, products, write_ok) ==
    IF write_ok
    THEN [exists |-> TRUE, products |-> products_with_images(products)]
    ELSE file

cascade_threshold == 50

\* the same with the regex patterns also tried at exactly 50 products
comprehensive_candidates_inclusive(doc) ==
    LET products == stage1_candidates(doc.containers)
    IN  IF Len(products) <= cascade_threshold
        THEN products \o stage1_candidates(doc.matches)
        ELSE products

\* the candidates of scrape_all_skincare_products: the selector loop, then
\* the regex patterns when fewer than 50 products were found
comprehensive_candidates(doc) ==
    LET products == stage1_candidates(doc.containers)
    IN  IF Len(products) < cascade_threshold
        THEN products \o stage1_candidates(doc.matches)
        ELSE products

\* its "Remove duplicates" loop also asks for the image
comprehensive_unique(products) ==
    unique_by_name(SelectSeq(products, LAMBDA q : q.image_url # ""))

\* its enhancement loop: product.update(additional_info)
enhance(uniques, infos) ==
    [i \in 1..Len(uniques) |->
         Update(uniques[i],
                individual_product_page(uniques[i].product_url,
                                        infos[i]))]

scrape_all_skincare_products(doc, infos) ==
    IF ~doc.robots \/ ~doc.resp THEN <<>>
    ELSE enhance(comprehensive_unique(comprehensive_candidates(doc)), infos)

InitCascade ==
    /\ scraper \in {"advanced", "comprehensive"}
    /\ document \in IF scraper = "advanced"
                     THEN AdvancedDocuments \cup FallbackDocuments
                     ELSE ComprehensiveDocuments
    /\ site = [nav |-> <<>>, anchors |-> <<>>]
    /\ progress_file = NoProgressFile
    /\ output_file = NoOutputFile
    /\ pc = "idle"
    /\ scraped_urls = {}
    /\ all_new_products = <<>>
    /\ idx = 0
    /\ scraped_products = <<>>
    /\ batches = <<>>
    /\ loaded = {}
    /\ fetched = {}
    /\ resumed = FALSE
    /\ saved_ok = FALSE
    /\ interrupted_done = {}
    /\ result = "none"
    /\ runs = 1
    /\ detail_page = NoDetailPage
    /\ extracted = "none"
    /\ catalogue = <<>>
    /\ request = NoRequest

\* MACAdvancedScraper.scrape_advanced on the document
ScrapeAdvanced ==
    /\ pc = "idle"
    /\ scraper = "advanced"
    /\ \E pages \in SeedPages : catalogue' = scrape_advanced(document, pages)
    /\ pc' = "returned"
    /\ UNCHANGED <<document, request, detail_page, extracted, scraper, site,
                   progress_file, output_file, scraped_urls, all_new_products,
                   idx, scraped_products, batches, loaded, fetched, resumed,
                   saved_ok, interrupted_done, result, runs>>

\* run of the advanced scraper after scrape_advanced returned: the products,
\* when there are any, are saved
SaveAdvanced ==
    /\ pc = "returned"
    /\ scraper = "advanced"
    /\ catalogue # <<>>
    /\ \E write_ok \in BOOLEAN :
           /\ output_file' = advanced_save_to_json(output_file, catalogue, write_ok)
           /\ saved_ok' = write_ok
    /\ pc' = "saved"
    /\ UNCHANGED <<document, catalogue, request, detail_page, extracted,
                   scraper, site, progress_file, scraped_urls,
                   all_new_products, idx, scraped_products, batches, loaded,
                   fetched, resumed, interrupted_done, result, runs>>

\* MACCosmeticsScraper.scrape_all_skincare_products on the document
ScrapeComprehensive ==
    /\ pc = "idle"
    /\ scraper = "comprehensive"
    /\ \E infos \in [1..(MaxContainers + MaxMatches) -> CascadeInfos] :
           catalogue' = scrape_all_skincare_products(document, infos)
    /\ pc' = "returned"
    /\ UNCHANGED <<document, request, detail_page, extracted, scraper, site,
                   progress_file, output_file, scraped_urls, all_new_products,
                   idx, scraped_products, batches, loaded, fetched, resumed,
                   saved_ok, interrupted_done, result, runs>>

NextCascade ==
    \/ ScrapeAdvanced
    \/ SaveAdvanced
    \/ ScrapeComprehensive

SpecCascade == InitCascade /\ [][NextCascade]_vars

(* ------------------------------------------------------------------ *)
(* The comprehensive scraper on pages with many containers            *)
(* ------------------------------------------------------------------ *)
\* The page yields r containers without image followed by n containers
\* that stage 1 accepts, all of one name; the regex patterns yield at most
\* one match, of another name or of none.
GateCounts == (cascade_threshold - 3)..(cascade_threshold + 3)
GateRejected == 0..2

GateContainers(n, r) ==
    [i \in 1..(r + n) |->
        [name |-> "Hydra Serum One", price |-> "$20.00",
         product_url |-> urljoin_base("/product/1"),
         image_url |-> IF i <= r THEN ""
                       ELSE "https://www.maccosmetics.com/img/a.jpg"]]

GateMatches ==
    SeqsUpTo({q \in ElementInfos : q.name # "Hydra Serum One"}, MaxMatches)

InitGate ==
    /\ scraper = "comprehensive"
    /\ \E n \in GateCounts, r \in GateRejected, matches \in GateMatches :
           document = [NoDocument EXCEPT !.resp = TRUE,
                                         !.containers = GateContainers(n, r),
                                         !.matches = matches]
    /\ site = [nav |-> <<>>, anchors |-> <<>>]
    /\ progress_file = NoProgressFile
    /\ output_file = NoOutputFile
    /\ pc = "idle"
    /\ scraped_urls = {}
    /\ all_new_products = <<>>
    /\ idx = 0
    /\ scraped_products = <<>>
    /\ batches = <<>>
    /\ loaded = {}
    /\ fetched = {}
    /\ resumed = FALSE
    /\ saved_ok = FALSE
    /\ interrupted_done = {}
    /\ result = "none"
    /\ runs = 1
    /\ detail_page = NoDetailPage
    /\ extracted = "none"
    /\ catalogue = <<>>
    /\ request = NoRequest

NextGate == ScrapeComprehensive

SpecGate == InitGate /\ [][NextGate]_vars

(* ------------------------------------------------------------------ *)
(* One make_request call                                              *)
(* ------------------------------------------------------------------ *)
\* What session.get can do on one attempt: answer with a status, or raise a
\* requests.exceptions.RequestException (Timeout, ConnectionError).  The
\* outcomes of a call are fixed beforehand, one more than the loop can use.
Statuses == {"200", "429", "500"}
RequestExceptions == {"Timeout", "ConnectionError"}
Outcomes == Statuses \cup RequestExceptions

\* self.delay_between_requests
delay_between_requests(s) == IF s = "mac" THEN 2 ELSE 3

\* wait_time = (attempt + 1) * 10 (MAC), * 15 (Moida); attempt counts from 0
wait_time(s, attempt) == (attempt + 1) * (IF s = "mac" THEN 10 ELSE 15)

\* an exception handler that lets connection errors through
timeout_caught(outcome) == outcome = "Timeout"

\* except requests.exceptions.RequestException
request_exception_caught(outcome) == outcome \in RequestExceptions

\* the seconds one round of the loop sleeps; attempt counts from 0
slept_after(s, attempt, outcome) ==
    IF outcome = "200" THEN 0
    ELSE IF outcome = "429" THEN wait_time(s, attempt)
    ELSE IF outcome \in Statuses THEN 0
    ELSE IF request_exception_caught(outcome) /\ attempt < max_retries - 1
         THEN delay_between_requests(s)
         ELSE 0

\* how the call stands after that round
returned_after(attempt, outcome) ==
    IF outcome = "200" THEN "response"
    ELSE IF outcome \notin Statuses /\ ~request_exception_caught(outcome)
         THEN "raised"
    ELSE IF attempt + 1 < max_retries THEN "pending"
    ELSE "None"

InitRequest ==
    /\ scraper \in {"mac", "moida"}
    /\ request \in [outcomes : [1..(max_retries + 1) -> Outcomes],
                    attempt : {0}, slept : {<<>>}, returned : {"pending"}]
    /\ site = [nav |-> <<>>, anchors |-> <<>>]
    /\ progress_file = NoProgressFile
    /\ output_file = NoOutputFile
    /\ pc = "idle"
    /\ scraped_urls = {}
    /\ all_new_products = <<>>
    /\ idx = 0
    /\ scraped_products = <<>>
    /\ batches = <<>>
    /\ loaded = {}
    /\ fetched = {}
    /\ resumed = FALSE
    /\ saved_ok = FALSE
    /\ interrupted_done = {}
    /\ result = "none"
    /\ runs = 1
    /\ detail_page = NoDetailPage
    /\ extracted = "none"
    /\ document = NoDocument
    /\ catalogue = <<>>

\* one round of "for attempt in range(self.max_retries)", and the
\* "return None" behind the loop when it was the last round
RequestAttempt ==
    /\ request.returned = "pending"
    /\ request.attempt < max_retries
    /\ LET outcome == request.outcomes[request.attempt + 1]
       IN  request' =
               [request EXCEPT
                    !.attempt = request.attempt + 1,
                    !.slept = Append(request.slept,
                                  slept_after(scraper, request.attempt,
                                              outcome)),
                    !.returned = returned_after(request.attempt, outcome)]
    /\ UNCHANGED <<document, catalogue, detail_page, extracted, scraper, site,
                   progress_file, output_file, pc, scraped_urls,
                   all_new_products, idx, scraped_products, batches, loaded,
                   fetched, resumed, saved_ok, interrupted_done, result, runs>>

NextRequest == RequestAttempt

SpecRequest == InitRequest /\ [][NextRequest]_vars

(* ------------------------------------------------------------------ *)
(* Properties of the pipeline                                         *)
(* ------------------------------------------------------------------ *)
OutputUrls == {output_file.products[i].product_url :
                   i \in 1..Len(output_file.products)}

NoDuplicateIdentity(products) ==
    \A i, j \in 1..Len(products) :
        products[i].product_url = products[j].product_url => i = j

\* C1: every record of the persisted output's products array has a
\* non-empty image_url, after any sequence of runs that started without an
\* output file.
C1_MandatoryImage ==
    \A i \in 1..Len(output_file.products) :
        output_file.products[i].image_url # ""

\* the output was written and a product recorded in the ledger was withheld
C1_Witness ==
    /\ pc = "idle"
    /\ runs = 2
    /\ Len(output_file.products) >= 2
    /\ \E u \in progress_file.scraped_urls : urljoin(u) \notin OutputUrls

\* C2: after two runs against the same site, the second having loaded the
\* ledger the first one wrote, no two records of the persisted output have
\* the same product url.
C2_NoDuplicatesAfterResume ==
    (pc = "idle" /\ runs = 2 /\ resumed /\ result # "killed")
        => NoDuplicateIdentity(output_file.products)

C4_InterruptionSafe ==
    /\ pc = "idle" => interrupted_done \subseteq progress_file.scraped_urls
    /\ fetched \cap interrupted_done = {}

\* C5: every url added to the ledger during a run belongs to a record of
\* the run's output list that has a name and an image.
C5_OnlyCompleteRecorded ==
    \A u \in scraped_urls \ loaded :
        \E i \in 1..Len(scraped_products) :
            /\ scraped_products[i].product_url = urljoin(u)
            /\ scraped_products[i].name # ""
            /\ scraped_products[i].image_url # ""

\* C10: no step removes a url from the persisted ledger, whatever the
\* outcome of loading and saving.
C10_LedgerAppendOnly ==
    [][progress_file.scraped_urls \subseteq progress_file'.scraped_urls]_vars

\* C11: a step that changes the persisted products array appends this run's
\* image-bearing records to the array persisted before; nothing persisted
\* earlier is removed.
C11_OutputAppendMerged ==
    [][\/ output_file'.products = output_file.products
       \/ /\ pc = "persist"
          /\ output_file'.products =
                 output_file.products \o
                     SelectSeq(scraped_products, LAMBDA q : q.image_url # "")]_vars

\* C12: run() returns the value of a run without new products (the empty
\* list) only when the run has no new products; in particular not when
\* writing the output file failed.
C12_WriteFailureDistinct ==
    [][(pc = "persist" /\ result' = "empty") => scraped_products = <<>>]_vars

\* C13: a run whose save_progress failed to write the ledger file does not
\* end with run() returning the success result (the products).
C13_LedgerWriteFailureFatal ==
    (pc = "idle" /\ result = "products") => saved_ok

\* a detail page was requested for every planned product
AllPlannedFetched ==
    \A i \in 1..Len(all_new_products) : all_new_products[i].url \in fetched

\* C14: whatever requests fail for a planned item, the run goes on: the
\* enrichment loop comes to its end with a detail page requested for every
\* planned item, and the run reaches the persist step.
C14_ItemFailureNotFatal ==
    /\ [](pc \in {"save_progress", "persist"} => AllPlannedFetched)
    /\ (pc = "enrich") ~> (pc = "persist")

\* a MAC run at the persist step whose first item got no response for its
\* image and whose second item was enriched with an image
C14_Witness ==
    /\ pc = "persist"
    /\ scraper = "mac"
    /\ Len(scraped_products) = 2
    /\ scraped_products[1].image_url = ""
    /\ scraped_products[2].image_url # ""

\* the run planned nothing: every product its pages yielded was in the
\* ledger the run holds (with nothing planned the cap is not reached, so
\* every category was visited and every product found was filtered out)
ZeroPlanRun ==
    /\ pc \in {"save_progress", "persist"}
    /\ all_new_products = <<>>

\* C15: a run in which every discovered product is already in the ledger
\* plans nothing, requests no detail page, and no step of it (unless it is
\* killed) changes the persisted products array or the persisted ledger
\* identities.
C15_ZeroPlanRunChangesNothing ==
    [][(ZeroPlanRun /\ result' # "killed") =>
           /\ fetched = {}
           /\ output_file'.products = output_file.products
           /\ progress_file'.scraped_urls = progress_file.scraped_urls]_vars

\* C16: of two consecutive runs on the same site, the second with the
\* ledger the first wrote, the second emits no more new products than the
\* first.  After the second run the output file holds the records of both,
\* and scraped_products is what the second returned.
C16_MonotoneResumeYield ==
    (pc = "idle" /\ runs = 2 /\ resumed) =>
        Len(scraped_products) <=
            Len(output_file.products) - Len(scraped_products)

\* C28: when a Moida run writes its output, the statistics written with it
\* report as many products without image (scraped minus with image) as the
\* run enriched and withheld from its result for lack of an image.
C28_WithheldCounted ==
    [][(pc = "persist" /\ scraper = "moida" /\ result' = "products") =>
           LET stats == moida_scraping_stats(scraped_products)
               withheld == Len(all_new_products) - Len(scraped_products)
           IN  stats.total_scraped_this_run
                   - stats.products_with_images_this_run = withheld]_vars

\* the page gave no product and scrape_advanced used the known products
KnownProductsUsed ==
    ~document.resp \/ extract_products_from_html(document) = <<>>

\* C30: when the page gives no product and the known products are used,
\* the saved output holds every known product, with an image_url that is
\* not empty, whatever its product page answered.
C30_FallbackDeliversEverySeed ==
    (pc = "saved" /\ scraper = "advanced" /\ saved_ok /\ KnownProductsUsed) =>
        \A i \in 1..Len(known_products) :
            \E j \in 1..Len(output_file.products) :
                /\ output_file.products[j].name = known_products[i].name
                /\ output_file.products[j].image_url # ""

\* the known products whose page gave no main_image are saved, each with
\* the image url constructed from its name
ConstructedSeedsSaved ==
    (pc = "saved" /\ scraper = "advanced" /\ saved_ok /\ KnownProductsUsed) =>
        \A j \in 1..Len(catalogue) :
            catalogue[j].main_image \in ConstructedImages =>
                \E k \in 1..Len(output_file.products) :
                    /\ output_file.products[k].name = catalogue[j].name
                    /\ output_file.products[k].image_url
                           = constructed_image(catalogue[j].name)

\* C21: the planned work list of a run never holds the same product url
\* twice.
C21_PlanHasNoDuplicates ==
    \A i, j \in 1..Len(all_new_products) :
        i < j => all_new_products[i].url # all_new_products[j].url

\* C22: while a run enriches, the detail pages requested so far are those
\* of the first idx planned products, the held ledger is the loaded one plus
\* exactly these urls, and the result list follows the plan (MAC: one record
\* per planned product, in plan order; Moida: the records with image, in plan
\* order); and one step requests and records exactly the next planned
\* product.
C22_Ordering ==
    /\ [](pc \in {"enrich", "save_progress", "persist"} =>
            /\ fetched = {all_new_products[i].url : i \in 1..idx}
            /\ scraped_urls = loaded \cup fetched
            /\ scraper = "mac" =>
                   /\ Len(scraped_products) = idx
                   /\ \A i \in 1..idx :
                          scraped_products[i].product_url
                              = all_new_products[i].url
            /\ scraper = "moida" =>
                   \E f \in [1..Len(scraped_products) -> 1..idx] :
                       /\ \A a, b \in 1..Len(scraped_products) :
                              a < b => f[a] < f[b]
                       /\ \A a \in 1..Len(scraped_products) :
                              scraped_products[a].product_url
                                  = urljoin(all_new_products[f[a]].url))
    /\ [][(pc = "enrich" /\ pc' # "idle") =>
              /\ idx' = idx + 1
              /\ fetched' = fetched \cup {all_new_products[idx + 1].url}
              /\ scraped_urls' =
                     scraped_urls \cup {all_new_products[idx + 1].url}]_vars

\* a MAC run that enriched two different products
C22_Witness ==
    /\ pc = "persist"
    /\ scraper = "mac"
    /\ idx = 2
    /\ all_new_products[1].url # all_new_products[2].url
    /\ scraped_products[2].product_url = all_new_products[2].url

\* C20: when a run that was not killed ends, every product of the run that
\* has an image and whose url is in the progress file is in the output file.
C20_AtLeastOnce ==
    [][(pc = "persist" /\ result' # "killed") =>
           \A i \in 1..Len(scraped_products) :
               (/\ scraped_products[i].image_url # ""
                /\ scraped_products[i].product_url
                       \in progress_file'.scraped_urls)
               => \E j \in 1..Len(output_file'.products) :
                      output_file'.products[j].product_url
                          = scraped_products[i].product_url]_vars

(* ------------------------------------------------------------------ *)
(* Properties of the strategy cascades                                *)
(* ------------------------------------------------------------------ *)
\* the identity of a product: its absolute url when it has one, else its name
Identity(q) == IF q.product_url # "" THEN q.product_url ELSE q.name

\* the candidates of the stages after stage 1, as the stages accept them
LaterStageCandidates ==
    IF scraper = "advanced"
    THEN link_candidates(document.links)
             \o keyword_candidates(document.keywords)
    ELSE stage1_candidates(document.matches)

\* the first container of its identity that stage 1 accepts
FirstOfIdentity(i) ==
    LET c == document.containers[i]
    IN  /\ c.name # ""
        /\ c.image_url # ""
        /\ \A j \in 1..(i - 1) :
               ~(/\ document.containers[j].name # ""
                 /\ document.containers[j].image_url # ""
                 /\ Identity(document.containers[j]) = Identity(c))

\* C17: when the page answers and a later stage found a candidate with the
\* identity of a stage-1 candidate, a record of that identity is returned and
\* every returned record of that identity carries the name, image and url of
\* the first stage-1 candidate of that identity.
C17_StrategyPriority ==
    (pc = "returned" /\ document.robots /\ document.resp) =>
        \A i \in 1..Len(document.containers) :
            LET c == document.containers[i]
                kept == {j \in 1..Len(catalogue) :
                             Identity(catalogue[j]) = Identity(c)}
            IN  (/\ FirstOfIdentity(i)
                 /\ \E l \in Range(LaterStageCandidates) :
                        Identity(l) = Identity(c))
                => /\ kept # {}
                   /\ \A j \in kept :
                          /\ catalogue[j].name = c.name
                          /\ catalogue[j].image_url = c.image_url
                          /\ catalogue[j].product_url = c.product_url

\* the first container of its name that stage 1 accepts
FirstOfName(i) ==
    LET c == document.containers[i]
    IN  /\ c.name # ""
        /\ c.image_url # ""
        /\ \A j \in 1..(i - 1) :
               ~(/\ document.containers[j].name = c.name
                 /\ document.containers[j].image_url # "")

\* What the "Remove duplicates" loops do give: every name that stage 1
\* accepted is returned exactly once, with the image and url of the first
\* stage-1 candidate of that name.
FirstOfNameReturned ==
    (pc = "returned" /\ document.robots /\ document.resp) =>
        \A i \in 1..Len(document.containers) :
            FirstOfName(i) =>
                LET c == document.containers[i]
                    kept == {j \in 1..Len(catalogue) :
                                 catalogue[j].name = c.name}
                IN  /\ Cardinality(kept) = 1
                    /\ \A j \in kept :
                           /\ catalogue[j].image_url = c.image_url
                           /\ catalogue[j].product_url = c.product_url

(* ------------------------------------------------------------------ *)
(* Properties of make_request                                         *)
(* ------------------------------------------------------------------ *)
\* the attempts made so far that were answered with status 200
Answered200 == {k \in 1..request.attempt : request.outcomes[k] = "200"}

\* C18: a call makes at most max_retries attempts; it returns the response
\* exactly when its last attempt was the first one answered with status 200,
\* and then makes no further attempt; it returns None exactly when all
\* max_retries attempts were made and none was answered with status 200; and
\* it never raises a request exception.
C18_BoundedRetry ==
    /\ [](/\ request.attempt <= max_retries
          /\ request.returned \in {"pending", "response", "None"}
          /\ request.returned = "response" <=>
                 Answered200 = {request.attempt} /\ request.attempt > 0
          /\ request.returned = "None" <=>
                 request.attempt = max_retries /\ Answered200 = {}
          /\ request.returned = "pending" <=>
                 request.attempt < max_retries /\ Answered200 = {})
    /\ [][request.returned # "pending" => request' = request]_vars

\* two exceptions, then status 200 on the last attempt
C18_Witness ==
    /\ request.returned = "response"
    /\ request.attempt = max_retries
    /\ request.outcomes[1] = "ConnectionError"
    /\ request.outcomes[2] = "Timeout"
    /\ request.outcomes[max_retries + 1] = "200"

\* C19: within one call, the waits after two failed attempts of the same kind
\* that are both followed by a retry are positive and proportional to the
\* attempt numbers.
C19_LinearBackoff ==
    \A m, n \in 1..Len(request.slept) :
        (/\ m < n
         /\ n < max_retries
         /\ request.outcomes[m] # "200"
         /\ request.outcomes[m] = request.outcomes[n])
        => /\ request.slept[m] > 0
           /\ request.slept[n] * m = request.slept[m] * n

\* What the code does give: the waits after status 429 are proportional to
\* the attempt number.
RateLimitWaitsLinear ==
    \A n \in 1..Len(request.slept) :
        request.outcomes[n] = "429" =>
            request.slept[n] = n * wait_time(scraper, 0)

\* the candidates the stages hand to the "Remove duplicates" loop
Candidates ==
    IF scraper = "advanced" THEN extract_products_from_html(document)
    ELSE comprehensive_candidates(document)

\* C25: when the page answers, the returned list holds a record for every
\* identity among the candidates (so two candidates of one name and two
\* different absolute urls are both returned), and no two returned records
\* have the same identity.
C25_IdentityUrlPreferred ==
    (pc = "returned" /\ document.robots /\ document.resp) =>
        /\ \A c \in Range(Candidates) :
               \E j \in 1..Len(catalogue) :
                   Identity(catalogue[j]) = Identity(c)
        /\ \A i, j \in 1..Len(catalogue) :
               i < j => Identity(catalogue[i]) # Identity(catalogue[j])

\* the number of non-empty fields of a candidate
Completeness(q) ==
    Cardinality({k \in {"name", "price", "product_url", "image_url"} :
                     q[k] # ""})

\* the candidate that should stand for the identity of candidate i: the
\* first of the most complete candidates of that identity
BestOfIdentity(i) ==
    LET same == {k \in 1..Len(Candidates) :
                     Identity(Candidates[k]) = Identity(Candidates[i])}
    IN  /\ \A k \in same :
               Completeness(Candidates[k]) <= Completeness(Candidates[i])
        /\ \A k \in same :
               k < i => Completeness(Candidates[k])
                            < Completeness(Candidates[i])

\* C26: when the page answers, every returned record of an identity has the
\* name, image and url (and, where no product page is merged in, the price)
\* of the most complete candidate of that identity, and of the first of them
\* when several are equally complete.
C26_CompletenessTieBreak ==
    (pc = "returned" /\ document.robots /\ document.resp) =>
        \A i \in 1..Len(Candidates) :
            BestOfIdentity(i) =>
                \A j \in 1..Len(catalogue) :
                    Identity(catalogue[j]) = Identity(Candidates[i]) =>
                        /\ catalogue[j].name = Candidates[i].name
                        /\ catalogue[j].image_url = Candidates[i].image_url
                        /\ catalogue[j].product_url
                               = Candidates[i].product_url
                        /\ scraper = "advanced" =>
                               catalogue[j].price = Candidates[i].price

\* C27: on a page whose regex matches have names that no container has,
\* the returned list holds a record for every match the regex stage accepts
\* when stage 1 accepted fewer than 50 containers, and a record for none of
\* them when stage 1 accepted 50 or more.
C27_CascadeGating ==
    (pc = "returned" /\ document.robots /\ document.resp) =>
        LET structural == stage1_candidates(document.containers)
            regex == stage1_candidates(document.matches)
            returned(q) == \E j \in 1..Len(catalogue) :
                               catalogue[j].name = q.name
        IN  /\ Len(structural) < 50 =>
                   \A i \in 1..Len(regex) : returned(regex[i])
            /\ Len(structural) >= 50 =>
                   \A i \in 1..Len(regex) : ~returned(regex[i])

\* exactly 50 accepted containers, two more without image, and a match the
\* regex stage would accept
C27_Witness ==
    /\ pc = "returned"
    /\ Len(stage1_candidates(document.containers)) = 50
    /\ Len(document.containers) = 52
    /\ stage1_candidates(document.matches) # <<>>
    /\ Len(catalogue) = 1

\* What the batched MAC scraper does give: a constructed url is the result of
\* the extraction only if its probe was answered with status 200 and no
\* earlier template's probe was.
ProbedImageVerified ==
    (pc = "extracted" /\ scraper = "mac") =>
        \A k \in 1..Len(potential_image_urls) :
            extracted = potential_image_urls[k] =>
                /\ detail_page.probes[k] = "200"
                /\ \A j \in 1..(k - 1) : detail_page.probes[j] # "200"

\* C24: a returned record has an image url constructed from a product name
\* only if the image host answers that url with status 200.
C24_ConstructedImagesVerified ==
    pc = "returned" =>
        \A j \in 1..Len(catalogue) :
            catalogue[j].image_url \in ConstructedImages
                => catalogue[j].image_url \in document.cdn

(* ------------------------------------------------------------------ *)
(* Properties of repeated invocations                                 *)
(* ------------------------------------------------------------------ *)
\* the ledger keys of the products the site lists
DiscoverableUrls ==
    {IF scraper = "mac" THEN urljoin(site.anchors[i].href)
                        ELSE site.anchors[i].href : i \in 1..Len(site.anchors)}

ZeroPlan == pc = "planned" /\ all_new_products = <<>>

\* C23: with nothing failing, the repeated invocations reach a run that
\* plans nothing; when a run plans nothing every listed product is in the
\* ledger file; and every run that plans something ends with a ledger file
\* that holds all it held before and at least one url more.
C23_IncrementalProgress ==
    /\ <>ZeroPlan
    /\ [](ZeroPlan => DiscoverableUrls \subseteq progress_file.scraped_urls)
    /\ [][(pc = "planned" /\ all_new_products # <<>>) =>
              /\ progress_file.scraped_urls
                     \subseteq progress_file'.scraped_urls
              /\ progress_file'.scraped_urls
                     # progress_file.scraped_urls]_vars

\* the fourth run or a later one is the first to plan nothing
C23_Witness ==
    /\ ZeroPlan
    /\ runs >= 4
    /\ DiscoverableUrls # {}
    /\ progress_file.scraped_urls = DiscoverableUrls

(* ------------------------------------------------------------------ *)
(* Properties of the planner                                          *)
(* ------------------------------------------------------------------ *)
\* the absolute urls of the anchors of page c, in page order
PageUrls(c) ==
    LET a == PageAnchors(site, c) IN [i \in 1..Len(a) |-> urljoin(a[i].href)]

\* the products page c offers to this run: urls not in the loaded ledger,
\* each at its first position
FirstUnseen(c) ==
    LET u == PageUrls(c)
        keep == SelectSeq([i \in 1..Len(u) |-> i],
                          LAMBDA i : /\ u[i] \notin loaded
                                     /\ \A j \in 1..(i - 1) : u[j] # u[i])
    IN  [j \in 1..Len(keep) |-> u[keep[j]]]

\* the pages the planner draws from: the category pages, or the main page
PlanPages == IF scraper = "mac" THEN site.nav ELSE <<0>>

RECURSIVE SumOffers(_, _)
SumOffers(k, cap) ==
    IF k > Len(PlanPages) THEN 0
    ELSE Min(cap, Len(FirstUnseen(PlanPages[k]))) + SumOffers(k + 1, cap)

\* what page c contributed to the planned work list
Contribution(c) == MapUrl(SelectSeq(all_new_products, LAMBDA q : q.category = c))

\* C6: the planned work list never has more than max_total_products items.
C6_GlobalCapNeverExceeded ==
    pc = "planned" => Len(all_new_products) <= max_total_products

RECURSIVE TotalBefore(_)
TotalBefore(k) == IF k <= 1 THEN 0 ELSE TotalBefore(k - 1) + Len(batches[k - 1])

\* C29: the planned work list of the MAC scraper has at most
\* max_total_products + batch_size - 1 items, and every category the planner
\* visited was reached with a running total below max_total_products.
C29_BoundedOvershoot ==
    (pc = "planned" /\ scraper = "mac") =>
        /\ Len(all_new_products) <= max_total_products + batch_size - 1
        /\ \A k \in 1..Len(batches) : TotalBefore(k) < max_total_products
        /\ Len(batches) < Len(site.nav) =>
               TotalBefore(Len(batches) + 1) >= max_total_products

\* the plan overshoots max_total_products: its last category was reached
\* below the cap and its batch went past it
C29_Witness ==
    /\ pc = "planned"
    /\ scraper = "mac"
    /\ Len(all_new_products) > max_total_products
    /\ TotalBefore(Len(batches)) < max_total_products

\* the cap was reached with categories left, and none of them was visited
C29_Unvisited ==
    /\ pc = "planned"
    /\ scraper = "mac"
    /\ Len(batches) < Len(site.nav)
    /\ Len(all_new_products) >= max_total_products

\* C8: a category contributes at most batch_size items to the planned work
\* list, namely the first batch_size products it offers, in page order; a
\* category that is not visited contributes nothing.
C8_PerCategoryCap ==
    (pc = "planned" /\ scraper = "mac") =>
        \A k \in 1..Len(site.nav) :
            LET c == site.nav[k]
                taken == Contribution(c)
                offered == FirstUnseen(c)
            IN  /\ Len(taken) <= batch_size
                /\ k <= Len(batches) =>
                       /\ taken = MapUrl(batches[k])
                       /\ Len(taken) = Min(batch_size, Len(offered))
                       /\ \A i \in 1..Len(taken) : taken[i] = offered[i]
                /\ k > Len(batches) => taken = <<>>

\* a category offering more than batch_size products was cut to batch_size
\* while the global cap was not reached
C8_Witness ==
    /\ pc = "planned"
    /\ scraper = "mac"
    /\ Len(all_new_products) < max_total_products
    /\ \E k \in 1..Len(batches) :
           /\ Len(FirstUnseen(site.nav[k])) > batch_size
           /\ Len(batches[k]) = batch_size

(* ------------------------------------------------------------------ *)
(* Properties of the image extraction                                 *)
(* ------------------------------------------------------------------ *)
\* the page was fetched, none of its <img> elements is accepted and no
\* constructed url answers a probe with 200
NothingResolves ==
    /\ detail_page.resp
    /\ \A i \in 1..Len(detail_page.imgs) :
           detail_page.imgs[i] \in {"", "short", "foreign"}
    /\ \A k \in 1..Len(potential_image_urls) : detail_page.probes[k] # "200"

\* C9: when the product page was fetched, no <img> passes the filter and
\* every constructed url fails its probe, the MAC image extraction returns
\* the fixed generic image url, never the empty string.
C9_MacFallback ==
    /\ (pc = "extracted" /\ scraper = "mac" /\ NothingResolves)
           => extracted = fallback_image
    /\ (pc = "extracted" /\ scraper = "mac" /\ detail_page.resp)
           => extracted # ""

\* such a page with <img> elements on it, one probe refused and one raising
C9_Witness ==
    /\ pc = "extracted"
    /\ scraper = "mac"
    /\ NothingResolves
    /\ Len(detail_page.imgs) >= 1
    /\ \E k, l \in 1..Len(potential_image_urls) :
           detail_page.probes[k] = "404" /\ detail_page.probes[l] = "exception"

====
